---- MODULE Spec2Model ----
(***************************************************************************)
(* Forest simulation: the first-person camera (learnopengl camera.h), the  *)
(* frame loop and GLFW callbacks of main.cpp, and the fragment shader      *)
(* 2.model_lighting.fs.                                                    *)
(*                                                                         *)
(* Numbers.  A float is modelled as a fixed-point integer with six decimal *)
(* digits: the float 1.0f is ONE, 0.125f is 125000, 89.0f is 89 * ONE.     *)
(* Products and quotients are computed limb by limb so that every          *)
(* intermediate value stays inside TLC's 32-bit integers; they truncate    *)
(* toward zero.  Cursor coordinates and cursor offsets are whole pixels    *)
(* (plain integers).  Angles are degrees (Yaw, Pitch) or radians (the      *)
(* arguments of sin and cos), as in the source.  sin and cos reduce their   *)
(* argument to -pi/4 .. pi/4 and sum the power series there.  The sines    *)
(* and cosines of the camera angles and the unit vectors updateCamera-     *)
(* Vectors derives from them are computed with nine decimals and stored    *)
(* with six, because a float keeps its significant digits where a fixed    *)
(* six-decimal value below 0.001 does not.                                 *)
(***************************************************************************)
EXTENDS Integers, Sequences, FiniteSets, TLC

VARIABLES
    pc,            \* where main() is: "loop", "frame", "pi_esc" .. "pi_d", "render", "draw", "poll", "done"
    clock,         \* what glfwGetTime() returns, in steps of TICK seconds
    keys,          \* GLFW's key state of the window: the keys glfwGetKey reports GLFW_PRESS for
    shouldClose,   \* the window's should-close flag
    camera,        \* the global Camera object
    lastX, lastY, firstMouse,      \* main.cpp globals of mouse_callback
    deltaTime, lastFrame,          \* main.cpp timing globals
    flashlightOn,                  \* main.cpp global
    dirLight,      \* main()'s DirLight struct
    uniforms,      \* the values uploaded to the shader program
    fragment,      \* the fragment shader's inputs of the last shaded fragment
    shaded,        \* what the fragment shader did with it
    frames,        \* iterations of the render loop started so far
    events,        \* input events delivered so far by glfwPollEvents
    drawn,         \* the draw calls of the current iteration have been issued
    prevCall, lastCall,            \* the last two member functions called on the camera
    fPresses,      \* F key presses delivered so far by glfwPollEvents
    cursorAt       \* the place of the last cursor event delivered, << >> before the first

vars == << pc, clock, keys, shouldClose, camera, lastX, lastY, firstMouse,
           deltaTime, lastFrame, flashlightOn, dirLight, uniforms, fragment,
           shaded, frames, events, drawn, prevCall, lastCall, fPresses, cursorAt >>

\* ------------------------------------------------------------ fixed point

ONE == 1000 * 1000
LIMB == 1000 + 0

Abs(x) == IF x < 0 THEN -x ELSE x
Sgn(x) == IF x < 0 THEN -1 ELSE 1
Max2(x, y) == IF x < y THEN y ELSE x
Min2(x, y) == IF y < x THEN y ELSE x

\* a * b / ONE for a, b >= 0, without leaving 32 bits
MulAbs(a, b) ==
    LET a1 == a \div LIMB
        a0 == a % LIMB
        b1 == b \div LIMB
        b0 == b % LIMB
    IN  a1 * b1 + (a1 * b0 + a0 * b1 + (a0 * b0) \div LIMB) \div LIMB

\* float multiplication
Mul(a, b) == Sgn(a) * Sgn(b) * MulAbs(Abs(a), Abs(b))

RECURSIVE FracDigits(_, _, _)
FracDigits(r, b, k) ==
    IF k = 0 THEN 0
    ELSE LET d == (r * 10) \div b
             m == (r * 10) % b
         IN  d * (10 ^ (k - 1)) + FracDigits(m, b, k - 1)

\* a * ONE / b for a >= 0, b > 0, by long division; a divisor above 200 is
\* first cut by one decimal digit, like the dividend
DivBig == 200 * ONE
DivAbs(a, b) ==
    LET n == IF b > DivBig THEN a \div 10 ELSE a
        d == IF b > DivBig THEN b \div 10 ELSE b
    IN  (n \div d) * ONE + FracDigits(n % d, d, 6)

\* float division (b # 0)
Div(a, b) == Sgn(a) * Sgn(b) * DivAbs(Abs(a), Abs(b))

\* r * r <= n * ONE, exactly (r, n >= 0)
SqLeq(r, n) ==
    LET r1 == r \div LIMB
        r0 == r % LIMB
        q  == n - r1 * r1
        c1 == 2 * r1 * r0 + (r0 * r0 + LIMB - 1) \div LIMB
        c2 == (c1 + LIMB - 1) \div LIMB
    IN  q >= 0 /\ c2 <= q

RECURSIVE SqrtSearch(_, _, _)
SqrtSearch(n, lo, hi) ==
    IF lo >= hi THEN lo
    ELSE LET mid == (lo + hi + 1) \div 2
         IN  IF SqLeq(mid, n) THEN SqrtSearch(n, mid, hi)
             ELSE SqrtSearch(n, lo, mid - 1)

SqrtHi == 46000 * 1000

\* float square root: the largest r with r * r <= n
sqrt(n) == SqrtSearch(n, 0, SqrtHi)

\* float power by a whole exponent (material.shininess = 8)
RECURSIVE pow(_, _)
pow(x, n) == IF n = 0 THEN ONE ELSE Mul(x, pow(x, n - 1))

clamp(x, lo, hi) == Min2(Max2(x, lo), hi)

\* ------------------------------------------------------------ trigonometry

\* A float keeps about seven significant digits however small its value is.
\* Sines, cosines and the unit vectors made of them lie in -1 .. 1 and are
\* computed with nine decimals (FINE is 1.0); a value is brought back to six
\* decimals when it is stored.
FINE == 1000 * ONE

\* a * b / FINE for 0 <= a, b <= FINE, without leaving 32 bits
MulFineAbs(a, b) ==
    LET a2 == a \div ONE
        a1 == (a \div LIMB) % LIMB
        a0 == a % LIMB
        b2 == b \div ONE
        b1 == (b \div LIMB) % LIMB
        b0 == b % LIMB
    IN  a2 * b2 * LIMB + a2 * b1 + a1 * b2
        + (a2 * b0 + a1 * b1 + a0 * b2
           + (a1 * b0 + a0 * b1 + (a0 * b0) \div LIMB) \div LIMB) \div LIMB

MulFine(a, b) == Sgn(a) * Sgn(b) * MulFineAbs(Abs(a), Abs(b))

\* nine decimals to six, to the nearest
Coarse(v) == (v + LIMB \div 2) \div LIMB

\* pi / 2 = 1.570796 326795
HALF_PI == 1570796 + 0
HALF_PI_REST == 326795 + 0

\* the multiple of pi / 2 nearest to the angle x (radians, any sign), and what
\* is left of x beside it, with nine decimals: -pi / 4 .. pi / 4
Quadrant(x) == (x + HALF_PI \div 2) \div HALF_PI
Reduced(x, q) == (x - q * HALF_PI) * LIMB - (q * HALF_PI_REST) \div LIMB

\* 1 - r2 / (k (k + 1)) * (1 - r2 / ((k + 2) (k + 3)) * ( ... )): the power
\* series of sin(r) / r from k = 2 and of cos(r) from k = 1, with r2 = r * r
RECURSIVE Taylor(_, _, _)
Taylor(r2, k, last) ==
    IF k > last THEN FINE
    ELSE FINE - MulFineAbs(r2, Taylor(r2, k + 2, last)) \div (k * (k + 1))

SinSeries(r) == Sgn(r) * MulFineAbs(Abs(r), Taylor(MulFineAbs(Abs(r), Abs(r)), 2, 10))
CosSeries(r) == Taylor(MulFineAbs(Abs(r), Abs(r)), 1, 11)

\* sin(q * pi / 2 + r)
SinTurn(q, r) ==
    CASE q % 4 = 0 -> SinSeries(r)
      [] q % 4 = 1 -> CosSeries(r)
      [] q % 4 = 2 -> -SinSeries(r)
      [] OTHER     -> -CosSeries(r)

\* std::sin and std::cos of a float (radians), with nine decimals
SinFine(x) ==
    LET At(q) == SinTurn(q, Reduced(x, q))
    IN  At(Quadrant(x))
CosFine(x) ==
    LET At(q) == SinTurn(q + 1, Reduced(x, q))
    IN  At(Quadrant(x))

sin(x) == Coarse(SinFine(x))
cos(x) == Coarse(CosFine(x))

\* pi / 180 = 0.017453 292520
DEG == 17453 + 0
DEG_REST == 292520 + 0

\* glm::radians: degrees * pi / 180, to the nearest millionth
RadiansAbs(deg) ==
    LET whole  == deg \div ONE
        milli  == (deg \div LIMB) % LIMB
        micro  == deg % LIMB
    IN  whole * DEG
        + ((whole * DEG_REST) \div LIMB + milli * DEG + (micro * DEG) \div LIMB
           + (milli * (DEG_REST \div LIMB)) \div LIMB + LIMB \div 2) \div LIMB
radians(deg) == Sgn(deg) * RadiansAbs(Abs(deg))

\* ------------------------------------------------------------ glm::vec3

vec3(x, y, z) == << x, y, z >>
VAdd(a, b) == << a[1] + b[1], a[2] + b[2], a[3] + b[3] >>
VSub(a, b) == << a[1] - b[1], a[2] - b[2], a[3] - b[3] >>
VNeg(a) == << -a[1], -a[2], -a[3] >>
VScale(a, s) == << Mul(a[1], s), Mul(a[2], s), Mul(a[3], s) >>
VMul(a, b) == << Mul(a[1], b[1]), Mul(a[2], b[2]), Mul(a[3], b[3]) >>
dot(a, b) == Mul(a[1], b[1]) + Mul(a[2], b[2]) + Mul(a[3], b[3])
cross(a, b) ==
    << Mul(a[2], b[3]) - Mul(a[3], b[2]),
       Mul(a[3], b[1]) - Mul(a[1], b[3]),
       Mul(a[1], b[2]) - Mul(a[2], b[1]) >>
VDiv(a, s) == << Div(a[1], s), Div(a[2], s), Div(a[3], s) >>
\* the largest component of a vector, and the length sqrt(dot(s, s)) of a
\* vector whose largest component is ONE
Largest(a) == Max2(Abs(a[1]), Max2(Abs(a[2]), Abs(a[3])))
Norm(s) == sqrt(dot(s, s))
\* glm::length / GLSL length; scaled like normalize, so that the square of a
\* long vector stays inside 32 bits
length(a) ==
    LET Scaled(m) == IF m = 0 THEN 0 ELSE Mul(m, Norm(VDiv(a, m)))
    IN  Scaled(Largest(a))
\* glm::normalize / GLSL normalize of a vector of non-zero length.  A float
\* keeps its relative precision however short the vector is; the fixed-point
\* model keeps it by bringing the largest component to ONE before dividing
\* by the length.
normalize(a) ==
    LET Unit(s) == VDiv(s, Norm(s))
    IN  Unit(VDiv(a, Largest(a)))

\* ------------------------------------------------------------ unit vectors

\* the first k decimals of r / b for 0 <= r < b and a divisor above 0.2,
\* where r * 10 may leave 32 bits: each digit is guessed from the divisor cut
\* by one decimal digit (one too low or right) and put right by what is left
RECURSIVE BigDigits(_, _, _)
BigDigits(r, b, k) ==
    IF k = 0 THEN 0
    ELSE LET Step(d, m) ==
                 IF m >= b THEN (d + 1) * (10 ^ (k - 1)) + BigDigits(m - b, b, k - 1)
                 ELSE d * (10 ^ (k - 1)) + BigDigits(m, b, k - 1)
             Guess(d) == Step(d, 10 * (r - d * (b \div 10)) - d * (b % 10))
         IN  Guess(r \div ((b + 9) \div 10))

\* a * FINE / b for a >= 0, b > 0, by long division
DivFineAbs(a, b) ==
    (a \div b) * FINE
    + (IF b > DivBig THEN BigDigits(a % b, b, 9) ELSE FracDigits(a % b, b, 9))

\* float division of values with nine decimals, |a| <= |b|, b # 0
DivFine(a, b) == Sgn(a) * Sgn(b) * DivFineAbs(Abs(a), Abs(b))

\* the largest r in lo .. hi with r * r <= n, nine decimals
RECURSIVE SqrtFineSearch(_, _, _)
SqrtFineSearch(n, lo, hi) ==
    IF lo >= hi THEN lo
    ELSE LET mid == (lo + hi + 1) \div 2
         IN  IF MulFineAbs(mid, mid) <= n THEN SqrtFineSearch(n, mid, hi)
             ELSE SqrtFineSearch(n, lo, mid - 1)
sqrtFine(n) == SqrtFineSearch(n, 0, FINE)

VCoarse(a) == << Coarse(a[1]), Coarse(a[2]), Coarse(a[3]) >>
VDivFine(a, s) == << DivFine(a[1], s), DivFine(a[2], s), DivFine(a[3], s) >>
VHalf(a) == << a[1] \div 2, a[2] \div 2, a[3] \div 2 >>
dotFine(a, b) == MulFine(a[1], b[1]) + MulFine(a[2], b[2]) + MulFine(a[3], b[3])
crossFine(a, b) ==
    << MulFine(a[2], b[3]) - MulFine(a[3], b[2]),
       MulFine(a[3], b[1]) - MulFine(a[1], b[3]),
       MulFine(a[1], b[2]) - MulFine(a[2], b[1]) >>

\* glm::normalize of a vector of non-zero length no longer than 1.0, nine
\* decimals in and out.  The largest component is brought to 0.5 first, so
\* that a short vector keeps its digits and the square of the length stays
\* below 1.0.
normalizeFine(a) ==
    LET Unit(s) == VDivFine(s, sqrtFine(dotFine(s, s)))
    IN  Unit(VHalf(VDivFine(a, Largest(a))))

\* ------------------------------------------------------------ camera

\* Default camera values
YAW == -90 * ONE
PITCH == 0
SPEED == 5000000
SENSITIVITY == 1000
\* Default bobbing values
BOBBING_SIZE == 125000
BOBBING_SPEED == 5000000
BOBBING_VEC == vec3(0, 0, 0)

RUN_FACTOR == 2500000
RUN_SIZE_FACTOR == 1300000
PITCH_LIMIT == 89000000
BOUNDARY == 74000000

Directions == { "FORWARD", "BACKWARD", "LEFT", "RIGHT" }

\* the front vector of the Euler angles, from the sines and cosines
EulerFront(cosYaw, sinYaw, cosPitch, sinPitch) ==
    vec3(MulFine(cosYaw, cosPitch), sinPitch, MulFine(sinYaw, cosPitch))

\* mutant: Right is not normalized
updateCameraVectorsRawRight(cam) ==
    LET front == EulerFront(CosFine(radians(cam.Yaw)), SinFine(radians(cam.Yaw)),
                            CosFine(radians(cam.Pitch)), SinFine(radians(cam.Pitch)))
        Basis(Front, Right) ==
            [cam EXCEPT !.Front = VCoarse(Front), !.Right = VCoarse(Right),
                        !.Up = VCoarse(normalizeFine(crossFine(Right, Front)))]
        Across(Front) == Basis(Front, cross(Front, cam.WorldUp))
    IN  Across(normalizeFine(front))

\* calculates the front vector from the Camera's (updated) Euler Angles.
\* Front, Right and Up are computed one from the other with nine decimals
\* (WorldUp has six: cross(Front, WorldUp) has nine again) and stored with
\* six.  Nine decimals carry Right and Up for the pitch the program reaches,
\* -89 .. 89 degrees (ProcessMouseMovement); nearer to +-90 the cross
\* product is too short for them.
updateCameraVectors(cam) ==
    LET front == EulerFront(CosFine(radians(cam.Yaw)), SinFine(radians(cam.Yaw)),
                            CosFine(radians(cam.Pitch)), SinFine(radians(cam.Pitch)))
        Basis(Front, Right) ==
            [cam EXCEPT !.Front = VCoarse(Front), !.Right = VCoarse(Right),
                        !.Up = VCoarse(normalizeFine(crossFine(Right, Front)))]
        Across(Front) == Basis(Front, normalizeFine(cross(Front, cam.WorldUp)))
    IN  Across(normalizeFine(front))

\* constructor with vectors
Camera(position, up, yaw, pitch) ==
    updateCameraVectors(
        [ Position |-> position, Front |-> vec3(0, 0, -ONE), Up |-> vec3(0, 0, 0),
          Right |-> vec3(0, 0, 0), WorldUp |-> up, Yaw |-> yaw, Pitch |-> pitch,
          MovementSpeed |-> SPEED, MouseSensitivity |-> SENSITIVITY,
          bobbingSize |-> BOBBING_SIZE, bobbingSpeed |-> BOBBING_SPEED,
          previousBobbing |-> BOBBING_VEC ])

\* mutant: the upper boundary of z is not applied
ClampBoundaryNoUpperZ(p) ==
    LET x1 == IF p[1] > BOUNDARY THEN BOUNDARY ELSE p[1]
        x2 == IF x1 < -BOUNDARY THEN -BOUNDARY ELSE x1
        z2 == IF p[3] < -BOUNDARY THEN -BOUNDARY ELSE p[3]
    IN  vec3(x2, p[2], z2)

\* camera position boundaries
ClampBoundary(p) ==
    LET x1 == IF p[1] > BOUNDARY THEN BOUNDARY ELSE p[1]
        x2 == IF x1 < -BOUNDARY THEN -BOUNDARY ELSE x1
        z1 == IF p[3] > BOUNDARY THEN BOUNDARY ELSE p[3]
        z2 == IF z1 < -BOUNDARY THEN -BOUNDARY ELSE z1
    IN  vec3(x2, p[2], z2)

\* the bobbing vector ProcessKeyboard computes at glfwGetTime() = time
Bobbing(cam, time) ==
    LET sinBobbing == Abs(Mul(sin(Mul(time, cam.bobbingSpeed)), cam.bobbingSize))
        Swing(cosBobbing) ==
            vec3(Mul(cosBobbing, sin(radians(cam.Yaw))),
                 sinBobbing,
                 Mul(ONE - cosBobbing, cos(radians(cam.Yaw))))
    IN  Swing(Mul(cos(Mul(time, cam.bobbingSpeed)), cam.bobbingSize))

\* mutant: LEFT moves like RIGHT
MovedLeftAdds(cam, direction, velocity, deltaBobbing) ==
    CASE direction = "FORWARD"  -> VAdd(cam.Position, VAdd(VScale(cam.Front, velocity), deltaBobbing))
      [] direction = "BACKWARD" -> VSub(cam.Position, VAdd(VScale(cam.Front, velocity), deltaBobbing))
      [] direction = "LEFT"     -> VAdd(cam.Position, VAdd(VScale(cam.Right, velocity), deltaBobbing))
      [] direction = "RIGHT"    -> VAdd(cam.Position, VAdd(VScale(cam.Right, velocity), deltaBobbing))

\* the position ProcessKeyboard reaches before it applies the boundaries
Moved(cam, direction, velocity, deltaBobbing) ==
    CASE direction = "FORWARD"  -> VAdd(cam.Position, VAdd(VScale(cam.Front, velocity), deltaBobbing))
      [] direction = "BACKWARD" -> VSub(cam.Position, VAdd(VScale(cam.Front, velocity), deltaBobbing))
      [] direction = "LEFT"     -> VSub(cam.Position, VAdd(VScale(cam.Right, velocity), deltaBobbing))
      [] direction = "RIGHT"    -> VAdd(cam.Position, VAdd(VScale(cam.Right, velocity), deltaBobbing))

\* mutant: Position.y is left where the move put it
ProcessKeyboardNoHeight(cam, direction, dt, time) ==
    LET velocity == Mul(cam.MovementSpeed, dt)
        Step(bobbing, bounded) ==
            [cam EXCEPT !.previousBobbing = bobbing, !.Position = bounded]
        Bob(bobbing, deltaBobbing) ==
            Step(bobbing, ClampBoundary(Moved(cam, direction, velocity, deltaBobbing)))
        Delta(bobbing) == Bob(bobbing, VSub(cam.previousBobbing, bobbing))
    IN  Delta(Bobbing(cam, time))

\* Camera::ProcessKeyboard(direction, deltaTime), with time the value its
\* glfwGetTime() call returns
ProcessKeyboard(cam, direction, dt, time) ==
    LET velocity == Mul(cam.MovementSpeed, dt)
        Step(bobbing, bounded) ==
            [cam EXCEPT !.previousBobbing = bobbing,
                        !.Position = vec3(bounded[1], 0 + bobbing[2], bounded[3])]
        Bob(bobbing, deltaBobbing) ==
            Step(bobbing, ClampBoundary(Moved(cam, direction, velocity, deltaBobbing)))
        Delta(bobbing) == Bob(bobbing, VSub(cam.previousBobbing, bobbing))
    IN  Delta(Bobbing(cam, time))

\* mutant: the lower bound of the pitch is not applied
ConstrainPitchNoLower(pitch) == IF pitch > PITCH_LIMIT THEN PITCH_LIMIT ELSE pitch

\* the pitch ProcessMouseMovement keeps
ConstrainPitch(pitch) ==
    LET p1 == IF pitch > PITCH_LIMIT THEN PITCH_LIMIT ELSE pitch
    IN  IF p1 < -PITCH_LIMIT THEN -PITCH_LIMIT ELSE p1

\* Camera::ProcessMouseMovement(xoffset, yoffset, constrainPitch); the offsets
\* are whole pixels
ProcessMouseMovement(cam, xoffset, yoffset, constrainPitch) ==
    LET yaw   == cam.Yaw + xoffset * cam.MouseSensitivity
        pitch == cam.Pitch + yoffset * cam.MouseSensitivity
        kept  == IF constrainPitch THEN ConstrainPitch(pitch) ELSE pitch
    IN  updateCameraVectors([cam EXCEPT !.Yaw = yaw, !.Pitch = kept])

\* mutant: speedUp multiplies the current values
speedUpAgain(cam) ==
    [cam EXCEPT !.MovementSpeed = Mul(cam.MovementSpeed, RUN_FACTOR),
                !.bobbingSpeed = Mul(cam.bobbingSpeed, RUN_FACTOR),
                !.bobbingSize = Mul(cam.bobbingSize, RUN_SIZE_FACTOR)]

\* changing to running/walking speed
speedUp(cam) ==
    [cam EXCEPT !.MovementSpeed = Mul(SPEED, RUN_FACTOR),
                !.bobbingSpeed = Mul(BOBBING_SPEED, RUN_FACTOR),
                !.bobbingSize = Mul(BOBBING_SIZE, RUN_SIZE_FACTOR)]

\* mutant: slowDown forgets the bobbing size
slowDownKeepSize(cam) ==
    [cam EXCEPT !.MovementSpeed = SPEED, !.bobbingSpeed = BOBBING_SPEED]

slowDown(cam) ==
    [cam EXCEPT !.MovementSpeed = SPEED,
                !.bobbingSpeed = BOBBING_SPEED,
                !.bobbingSize = BOBBING_SIZE]

\* glm::lookAt(eye, center, up), as its columns
lookAt(eye, center, up) ==
    LET Columns(f, s, u) ==
            << << s[1], u[1], -f[1], 0 >>,
               << s[2], u[2], -f[2], 0 >>,
               << s[3], u[3], -f[3], 0 >>,
               << -dot(s, eye), -dot(u, eye), dot(f, eye), ONE >> >>
        Side(f, s) == Columns(f, s, cross(s, f))
        Ahead(f) == Side(f, normalize(cross(f, up)))
    IN  Ahead(normalize(VSub(center, eye)))

\* returns the view matrix calculated using Euler Angles and the LookAt Matrix
GetViewMatrix(cam) == lookAt(cam.Position, VAdd(cam.Position, cam.Front), cam.Up)

\* ------------------------------------------------------------ fragment shader

ZeroVec == vec3(0, 0, 0)
ALPHA_CUTOUT == 100000

\* GLSL reflect(I, N) = I - 2 * dot(N, I) * N
reflect(I, N) == VSub(I, VScale(N, 2 * dot(N, I)))

\* CalcDirLight.  normalize(-light.direction) divides by zero when the
\* direction is the zero vector and GLSL leaves its result undefined: undef
\* is the outcome the GPU produces, "nan" (the NaN spreads to the result) or
\* "zero" (max(NaN, 0.0) gives 0.0: no diffuse and no specular term).
CalcDirLight(light, normal, viewDir, texture, shininess, undef) ==
    LET defined == light.direction # ZeroVec
        tex     == vec3(texture[1], texture[2], texture[3])
        Sum(diff, spec) ==
            [ nan |-> ~defined /\ undef = "nan",
              rgb |-> VAdd(VAdd(VMul(light.ambient, tex),
                                VMul(VScale(light.diffuse, diff), tex)),
                           VMul(VScale(light.specular, spec), tex)) ]
        Lit(lightDir) ==
            Sum(IF defined THEN Max2(dot(normal, lightDir), 0) ELSE 0,
                IF defined
                THEN pow(Max2(dot(viewDir, reflect(VNeg(lightDir), normal)), 0), shininess)
                ELSE 0)
    IN  Lit(IF defined THEN normalize(VNeg(light.direction)) ELSE ZeroVec)

\* mutant: the spotlight intensity is not clamped
SpotTermsUnclamped(light, normal, fragPos, viewDir, texture, shininess) ==
    LET epsilon == light.cutOff - light.outerCutOff
        tex     == vec3(texture[1], texture[2], texture[3])
        Scaled(theta, intensity, attenuation, ambient, diffuse, specular, scale) ==
            [ theta |-> theta, intensity |-> intensity, attenuation |-> attenuation,
              base |-> << ambient, diffuse, specular >>,
              ambient  |-> VScale(ambient, scale),
              diffuse  |-> VScale(diffuse, scale),
              specular |-> VScale(specular, scale) ]
        Terms(theta, intensity, attenuation, diff, spec) ==
            Scaled(theta, intensity, attenuation,
                   VMul(light.ambient, tex),
                   VMul(VScale(light.diffuse, diff), tex),
                   VMul(VScale(light.specular, spec), tex),
                   Mul(attenuation, intensity))
        Attenuation(distance) ==
            Div(ONE, light.constant + Mul(light.linear, distance)
                     + Mul(Mul(light.quadratic, distance), distance))
        Cone(lightDir, theta) ==
            Terms(theta,
                  Div(theta - light.outerCutOff, epsilon),
                  Attenuation(length(VSub(light.position, fragPos))),
                  Max2(dot(normal, lightDir), 0),
                  pow(Max2(dot(viewDir, reflect(VNeg(lightDir), normal)), 0), shininess))
        Lit(lightDir) == Cone(lightDir, dot(lightDir, normalize(VNeg(light.direction))))
    IN  Lit(normalize(VSub(light.position, fragPos)))

\* CalcSpotLight, with the values it computes on the way.  distance * distance
\* is multiplied by light.quadratic one factor at a time, so that the square
\* of a long distance stays inside 32 bits.
SpotTerms(light, normal, fragPos, viewDir, texture, shininess) ==
    LET epsilon == light.cutOff - light.outerCutOff
        tex     == vec3(texture[1], texture[2], texture[3])
        Scaled(theta, intensity, attenuation, ambient, diffuse, specular, scale) ==
            [ theta |-> theta, intensity |-> intensity, attenuation |-> attenuation,
              base |-> << ambient, diffuse, specular >>,
              ambient  |-> VScale(ambient, scale),
              diffuse  |-> VScale(diffuse, scale),
              specular |-> VScale(specular, scale) ]
        Terms(theta, intensity, attenuation, diff, spec) ==
            Scaled(theta, intensity, attenuation,
                   VMul(light.ambient, tex),
                   VMul(VScale(light.diffuse, diff), tex),
                   VMul(VScale(light.specular, spec), tex),
                   Mul(attenuation, intensity))
        Attenuation(distance) ==
            Div(ONE, light.constant + Mul(light.linear, distance)
                     + Mul(Mul(light.quadratic, distance), distance))
        Cone(lightDir, theta) ==
            Terms(theta,
                  clamp(Div(theta - light.outerCutOff, epsilon), 0, ONE),
                  Attenuation(length(VSub(light.position, fragPos))),
                  Max2(dot(normal, lightDir), 0),
                  pow(Max2(dot(viewDir, reflect(VNeg(lightDir), normal)), 0), shininess))
        Lit(lightDir) == Cone(lightDir, dot(lightDir, normalize(VNeg(light.direction))))
    IN  Lit(normalize(VSub(light.position, fragPos)))

CalcSpotLight(light, normal, fragPos, viewDir, texture, shininess) ==
    LET Sum(t) == VAdd(VAdd(t.ambient, t.diffuse), t.specular)
    IN  Sum(SpotTerms(light, normal, fragPos, viewDir, texture, shininess))

NoSpot == [ theta |-> 0, intensity |-> 0, attenuation |-> 0,
            base |-> << ZeroVec, ZeroVec, ZeroVec >>,
            ambient |-> ZeroVec, diffuse |-> ZeroVec, specular |-> ZeroVec ]

\* shaded: what the shader did with a fragment (discarded it, or wrote
\* FragColor, a NaN colour when nan), with the spot terms when CalcSpotLight ran
NotShaded == [ discarded |-> FALSE, written |-> FALSE, nan |-> FALSE,
               FragColor |-> << 0, 0, 0, 0 >>, spotAdded |-> FALSE,
               dir |-> ZeroVec, spot |-> NoSpot ]

\* mutant: the alpha test is missing
ShaderMainNoDiscard(u, frag, undef) ==
    LET Out(dir, result) ==
            [ discarded |-> FALSE, written |-> TRUE, nan |-> dir.nan,
              FragColor |-> << result[1], result[2], result[3], ONE >>,
              spotAdded |-> FALSE, dir |-> dir.rgb, spot |-> NoSpot ]
        Result(dir) == Out(dir, dir.rgb)
        Lit(normal, viewDir) ==
            Result(CalcDirLight(u.dirLight, normal, viewDir, frag.texColor,
                                u.shininess, undef))
    IN  Lit(normalize(frag.Normal), normalize(VSub(u.viewPosition, frag.FragPos)))

\* main() of the fragment shader on the fragment frag = [texColor, Normal,
\* FragPos], texColor being what texture(material.texture_diffuse1, TexCoords)
\* samples
ShaderMain(u, frag, undef) ==
    IF frag.texColor[4] < ALPHA_CUTOUT
    THEN [NotShaded EXCEPT !.discarded = TRUE]
    ELSE LET spotOn == u.spotLightOn > 0
             Out(dir, result, terms) ==
                 [ discarded |-> FALSE, written |-> TRUE, nan |-> dir.nan,
                   FragColor |-> << result[1], result[2], result[3], ONE >>,
                   spotAdded |-> spotOn, dir |-> dir.rgb, spot |-> terms ]
             Result(dir, spot, terms) == Out(dir, VAdd(dir.rgb, spot), terms)
             Lit(normal, viewDir) ==
                 Result(CalcDirLight(u.dirLight, normal, viewDir, frag.texColor,
                                     u.shininess, undef),
                        IF spotOn
                        THEN CalcSpotLight(u.spotLight, normal, frag.FragPos, viewDir,
                                           frag.texColor, u.shininess)
                        ELSE ZeroVec,
                        IF spotOn
                        THEN SpotTerms(u.spotLight, normal, frag.FragPos, viewDir,
                                       frag.texColor, u.shininess)
                        ELSE NoSpot)
         IN  Lit(normalize(frag.Normal), normalize(VSub(u.viewPosition, frag.FragPos)))

\* ------------------------------------------------------------ main.cpp

\* glfwGetTime(): the render loop is reached STARTUP = pi/18 seconds after
\* glfwInit, and the timer advances in steps of TICK = 5*pi seconds between
\* two readings.  time * bobbingSpeed is then a whole number of degrees (50
\* + 4500 per step when walking, 125 + 11250 when running) and so is time / 10
\* (1 + 90 per step): the sun is up at the readings 0 and 1 of the clock and
\* down at the readings 2 and 3.  One step carries the walking camera 78.5
\* units, past a boundary.
STARTUP == 174533 + 0
TICK == 15707963 + 0
glfwGetTime == STARTUP + clock * TICK

SCR_WIDTH == 800
SCR_HEIGHT == 600
CUT_OFF == 976296
OUTER_CUT_OFF == 965926
SHININESS == 8

AllKeys == { "ESCAPE", "W", "S", "A", "D", "LEFT_SHIFT", "F" }
KeyActions == { "PRESS", "RELEASE", "REPEAT" }

\* main()'s lights before the render loop
DirLight0 ==
    [ ambient |-> vec3(10000, 10000, 10000),
      diffuse |-> vec3(500000, 500000, 500000),
      direction |-> vec3(-200000, -ONE, -300000),
      specular |-> vec3(500000, 500000, 500000) ]

SpotLight0 ==
    [ position |-> ZeroVec, direction |-> ZeroVec,
      ambient |-> vec3(0, 0, 0),
      diffuse |-> vec3(ONE, ONE, ONE),
      specular |-> vec3(ONE, ONE, ONE),
      constant |-> ONE, linear |-> 90000, quadratic |-> 32000,
      cutOff |-> CUT_OFF, outerCutOff |-> OUTER_CUT_OFF ]

\* what the shader program holds before the first upload
Uniforms0 ==
    [ dirLight |-> [DirLight0 EXCEPT !.ambient = ZeroVec, !.diffuse = ZeroVec,
                                     !.direction = ZeroVec, !.specular = ZeroVec],
      spotLight |-> [SpotLight0 EXCEPT !.diffuse = ZeroVec, !.specular = ZeroVec,
                                       !.constant = 0, !.linear = 0, !.quadratic = 0,
                                       !.cutOff = 0, !.outerCutOff = 0],
      spotLightOn |-> 0, viewPosition |-> ZeroVec, shininess |-> 0,
      view |-> << >> ]

Fragment0 == [ texColor |-> << 0, 0, 0, 0 >>, Normal |-> ZeroVec, FragPos |-> ZeroVec ]

\* the state when main() reaches its render loop
AppInit ==
    /\ pc = "loop"
    /\ clock = 0
    /\ keys = {}
    /\ shouldClose = FALSE
    /\ camera = Camera(vec3(0, 0, 3 * ONE), vec3(0, ONE, 0), YAW, PITCH)
    /\ lastX = SCR_WIDTH \div 2
    /\ lastY = SCR_HEIGHT \div 2
    /\ firstMouse = TRUE
    /\ deltaTime = 0
    /\ lastFrame = 0
    /\ flashlightOn = FALSE
    /\ dirLight = DirLight0
    /\ uniforms = Uniforms0
    /\ fragment = Fragment0
    /\ shaded = NotShaded
    /\ frames = 0
    /\ events = 0
    /\ drawn = FALSE
    /\ prevCall = "none"
    /\ lastCall = "Camera"
    /\ fPresses = 0
    /\ cursorAt = << >>

\* the places of main() whose next step reads glfwGetTime()
ClockReaders == { "frame", "pi_w", "pi_s", "pi_a", "pi_d", "render" }

\* time passes before a reading of the clock: glfwGetTime() returns one TICK
\* more
Tick(maxClock) ==
    /\ pc \in ClockReaders
    /\ clock < maxClock
    /\ clock' = clock + 1
    /\ UNCHANGED << pc, keys, shouldClose, camera, lastX, lastY, firstMouse,
                    deltaTime, lastFrame, flashlightOn, dirLight, uniforms, fragment,
                    shaded, frames, events, drawn, prevCall, lastCall,
                    fPresses, cursorAt >>

\* mutant: the loop does not test the should-close flag
LoopTestNeverExits(maxFrames) ==
    /\ pc = "loop"
    /\ frames < maxFrames /\ pc' = "frame" /\ frames' = frames + 1 /\ drawn' = FALSE
    /\ UNCHANGED << clock, keys, shouldClose, camera, lastX, lastY, firstMouse,
                    deltaTime, lastFrame, flashlightOn, dirLight, uniforms, fragment,
                    shaded, events, prevCall, lastCall, fPresses, cursorAt >>

\* while (!glfwWindowShouldClose(window)); after the loop: cleanup, return 0
LoopTest(maxFrames) ==
    /\ pc = "loop"
    /\ IF shouldClose
       THEN pc' = "done" /\ UNCHANGED << frames, drawn >>
       ELSE frames < maxFrames /\ pc' = "frame" /\ frames' = frames + 1 /\ drawn' = FALSE
    /\ UNCHANGED << clock, keys, shouldClose, camera, lastX, lastY, firstMouse,
                    deltaTime, lastFrame, flashlightOn, dirLight, uniforms, fragment,
                    shaded, events, prevCall, lastCall,
                    fPresses, cursorAt >>

\* per-frame time logic
FrameTime ==
    /\ pc = "frame"
    /\ LET currentFrame == glfwGetTime
       IN  /\ deltaTime' = currentFrame - lastFrame
           /\ lastFrame' = currentFrame
    /\ pc' = "pi_esc"
    /\ UNCHANGED << clock, keys, shouldClose, camera, lastX, lastY, firstMouse,
                    flashlightOn, dirLight, uniforms, fragment, shaded, frames,
                    events, drawn, prevCall, lastCall,
                    fPresses, cursorAt >>

\* processInput: if (glfwGetKey(window, GLFW_KEY_ESCAPE) == GLFW_PRESS)
ProcessInputEscape ==
    /\ pc = "pi_esc"
    /\ shouldClose' = (shouldClose \/ "ESCAPE" \in keys)
    /\ pc' = "pi_w"
    /\ UNCHANGED << clock, keys, camera, lastX, lastY, firstMouse, deltaTime,
                    lastFrame, flashlightOn, dirLight, uniforms, fragment, shaded,
                    frames, events, drawn, prevCall, lastCall,
                    fPresses, cursorAt >>

\* processInput: if (glfwGetKey(window, key) == GLFW_PRESS)
\*                   camera.ProcessKeyboard(direction, deltaTime);
ProcessInputKey(at, key, direction, next) ==
    /\ pc = at
    /\ pc' = next
    /\ IF key \in keys
       THEN /\ camera' = ProcessKeyboard(camera, direction, deltaTime, glfwGetTime)
            /\ prevCall' = lastCall
            /\ lastCall' = "ProcessKeyboard"
       ELSE UNCHANGED << camera, prevCall, lastCall >>
    /\ UNCHANGED << clock, keys, shouldClose, lastX, lastY, firstMouse, deltaTime,
                    lastFrame, flashlightOn, dirLight, uniforms, fragment, shaded,
                    frames, events, drawn,
                    fPresses, cursorAt >>

ProcessInputW == ProcessInputKey("pi_w", "W", "FORWARD", "pi_s")
ProcessInputS == ProcessInputKey("pi_s", "S", "BACKWARD", "pi_a")
ProcessInputA == ProcessInputKey("pi_a", "A", "LEFT", "pi_d")
ProcessInputD == ProcessInputKey("pi_d", "D", "RIGHT", "render")

\* mutant: the night also switches diffuse and specular off
DayNightDark(light, time) ==
    LET sin_time == sin(time \div 10)
        cos_time == cos(time \div 10)
    IN  IF sin_time > 0
        THEN [light EXCEPT !.diffuse = vec3(Mul(500000, sin_time), Mul(500000, sin_time),
                                            Mul(500000, sin_time)),
                           !.specular = vec3(Mul(500000, sin_time), Mul(500000, sin_time),
                                             Mul(500000, sin_time)),
                           !.direction = vec3(-cos_time, -sin_time, -ONE + cos_time)]
        ELSE [light EXCEPT !.direction = vec3(0, 0, 0), !.diffuse = vec3(0, 0, 0),
                           !.specular = vec3(0, 0, 0)]

\* calculating day-night cycle
DayNight(light, time) ==
    LET sin_time == sin(time \div 10)
        cos_time == cos(time \div 10)
    IN  IF sin_time > 0
        THEN [light EXCEPT !.diffuse = vec3(Mul(500000, sin_time), Mul(500000, sin_time),
                                            Mul(500000, sin_time)),
                           !.specular = vec3(Mul(500000, sin_time), Mul(500000, sin_time),
                                             Mul(500000, sin_time)),
                           !.direction = vec3(-cos_time, -sin_time, -ONE + cos_time)]
        ELSE [light EXCEPT !.direction = vec3(0, 0, 0)]

\* mutant: the spotlight keeps the place it was given before the loop
UploadFixedSpot(light, cam, view, flashlight) ==
    [ dirLight |-> light,
      spotLight |-> [SpotLight0 EXCEPT !.direction = cam.Front,
                                       !.position = vec3(0, 0, 3 * ONE)],
      spotLightOn |-> IF flashlight THEN 1 ELSE 0,
      viewPosition |-> cam.Position,
      shininess |-> SHININESS,
      view |-> view ]

\* the uniform uploads of one frame
Upload(light, cam, view, flashlight) ==
    [ dirLight |-> light,
      spotLight |-> [SpotLight0 EXCEPT !.direction = cam.Front, !.position = cam.Position],
      spotLightOn |-> IF flashlight THEN 1 ELSE 0,
      viewPosition |-> cam.Position,
      shininess |-> SHININESS,
      view |-> view ]

\* mutant: glfwPollEvents is called before the draw calls
RenderThenPoll ==
    /\ pc = "render"
    /\ LET view  == GetViewMatrix(camera)
           light == DayNight(dirLight, glfwGetTime)
       IN  /\ dirLight' = light
           /\ uniforms' = Upload(light, camera, view, flashlightOn)
    /\ pc' = "poll"
    /\ UNCHANGED << clock, keys, shouldClose, camera, lastX, lastY, firstMouse,
                    deltaTime, lastFrame, flashlightOn, fragment, shaded, frames,
                    events, drawn, prevCall, lastCall,
                    fPresses, cursorAt >>

\* render: the view matrix, the day-night cycle and the uniforms
Render ==
    /\ pc = "render"
    /\ LET view  == GetViewMatrix(camera)
           light == DayNight(dirLight, glfwGetTime)
       IN  /\ dirLight' = light
           /\ uniforms' = Upload(light, camera, view, flashlightOn)
    /\ pc' = "draw"
    /\ UNCHANGED << clock, keys, shouldClose, camera, lastX, lastY, firstMouse,
                    deltaTime, lastFrame, flashlightOn, fragment, shaded, frames,
                    events, drawn, prevCall, lastCall,
                    fPresses, cursorAt >>

\* fragments of the scene.  The floor is the plane of height -0.2 drawn with
\* model = scale(15): its fragments lie at height -3, x and z within -75 .. 75
\* (FragPos is the world position model * aPos; the vertex shader is not part
\* of the sources read).  This one is opaque and lies 15 ahead of the
\* camera's first place (0, 0, 3), inside the cone of the flashlight there.
\* The leaf is a cut-out texel of the tree.
FloorFragment ==
    [ texColor |-> << 400000, 600000, 200000, ONE >>, Normal |-> vec3(0, ONE, 0),
      FragPos |-> vec3(0, -3 * ONE, -12 * ONE) ]
LeafFragment ==
    [ texColor |-> << 100000, 500000, 100000, 0 >>, Normal |-> vec3(0, 0, ONE),
      FragPos |-> vec3(0, 2 * ONE, 0) ]
SceneFragments == { FloorFragment, LeafFragment }

UndefinedOutcomes == { "nan", "zero" }

\* the undefined outcomes that matter to a draw with the uniforms u
Outcomes(u) == IF u.dirLight.direction = ZeroVec THEN UndefinedOutcomes ELSE { "zero" }

\* the draw calls of the frame, seen at one fragment of frags
Draw(frags) ==
    /\ pc = "draw"
    /\ \E frag \in frags, undef \in Outcomes(uniforms) :
          /\ fragment' = frag
          /\ shaded' = ShaderMain(uniforms, frag, undef)
    /\ drawn' = TRUE
    /\ pc' = "poll"
    /\ UNCHANGED << clock, keys, shouldClose, camera, lastX, lastY, firstMouse,
                    deltaTime, lastFrame, flashlightOn, dirLight, uniforms, frames,
                    events, prevCall, lastCall,
                    fPresses, cursorAt >>

\* the key state GLFW keeps: set before the key callback runs
KeyState(ks, key, action) == IF action = "RELEASE" THEN ks \ { key } ELSE ks \cup { key }

\* mutant: key_callback never slows the camera down
KeyCallbackCameraNoSlowDown(cam, ks) ==
    IF "LEFT_SHIFT" \in ks THEN speedUp(cam) ELSE cam

\* key_callback, run with the key state ks
KeyCallbackCamera(cam, ks) ==
    IF "LEFT_SHIFT" \in ks THEN speedUp(cam) ELSE slowDown(cam)

\* mutant: a press of the F key turns the flashlight on
KeyCallbackFlashlightTurnsOn(on, key, action) ==
    IF key = "F" /\ action = "PRESS" THEN TRUE ELSE on

KeyCallbackFlashlight(on, key, action) ==
    IF key = "F" /\ action = "PRESS" THEN ~on ELSE on

\* glfwPollEvents delivers a key event: GLFW reports PRESS for a key that was
\* up, REPEAT or RELEASE for a key that is down
KeyEvent(key, action, maxEvents) ==
    /\ pc = "poll"
    /\ events < maxEvents
    /\ (action = "PRESS") = (key \notin keys)
    /\ events' = events + 1
    /\ keys' = KeyState(keys, key, action)
    /\ camera' = KeyCallbackCamera(camera, keys')
    /\ prevCall' = lastCall
    /\ lastCall' = IF "LEFT_SHIFT" \in keys' THEN "speedUp" ELSE "slowDown"
    /\ flashlightOn' = KeyCallbackFlashlight(flashlightOn, key, action)
    /\ fPresses' = IF key = "F" /\ action = "PRESS" THEN fPresses + 1 ELSE fPresses
    /\ UNCHANGED << pc, clock, shouldClose, lastX, lastY, firstMouse, deltaTime,
                    lastFrame, dirLight, uniforms, fragment, shaded, frames, drawn,
                    cursorAt >>

\* mutant: mouse_callback without the firstMouse test
CursorEventNoFirstMouse(xpos, ypos, maxEvents) ==
    /\ pc = "poll"
    /\ events < maxEvents
    /\ events' = events + 1
    /\ camera' = ProcessMouseMovement(camera, xpos - lastX, lastY - ypos, TRUE)
    /\ firstMouse' = FALSE
    /\ lastX' = xpos
    /\ lastY' = ypos
    /\ cursorAt' = << xpos, ypos >>
    /\ prevCall' = lastCall
    /\ lastCall' = "ProcessMouseMovement"
    /\ UNCHANGED << pc, clock, keys, shouldClose, deltaTime, lastFrame, flashlightOn,
                    dirLight, uniforms, fragment, shaded, frames, drawn,
                    fPresses >>

\* glfwPollEvents delivers a cursor position: mouse_callback
CursorEvent(xpos, ypos, maxEvents) ==
    /\ pc = "poll"
    /\ events < maxEvents
    /\ events' = events + 1
    /\ LET fromX   == IF firstMouse THEN xpos ELSE lastX
           fromY   == IF firstMouse THEN ypos ELSE lastY
           xoffset == xpos - fromX
           yoffset == fromY - ypos
       IN  camera' = ProcessMouseMovement(camera, xoffset, yoffset, TRUE)
    /\ firstMouse' = FALSE
    /\ lastX' = xpos
    /\ lastY' = ypos
    /\ cursorAt' = << xpos, ypos >>
    /\ prevCall' = lastCall
    /\ lastCall' = "ProcessMouseMovement"
    /\ UNCHANGED << pc, clock, keys, shouldClose, deltaTime, lastFrame, flashlightOn,
                    dirLight, uniforms, fragment, shaded, frames, drawn,
                    fPresses >>

\* glfwPollEvents returns: the iteration ends
PollReturn ==
    /\ pc = "poll"
    /\ pc' = "loop"
    /\ UNCHANGED << clock, keys, shouldClose, camera, lastX, lastY, firstMouse,
                    deltaTime, lastFrame, flashlightOn, dirLight, uniforms, fragment,
                    shaded, frames, events, drawn, prevCall, lastCall,
                    fPresses, cursorAt >>

\* the steps of main() and the passing of time
Frame(maxFrames, maxClock, frags) ==
    \/ Tick(maxClock)
    \/ LoopTest(maxFrames)
    \/ FrameTime
    \/ ProcessInputEscape
    \/ ProcessInputW
    \/ ProcessInputS
    \/ ProcessInputA
    \/ ProcessInputD
    \/ Render
    \/ Draw(frags)
    \/ PollReturn

\* ------------------------------------------------------------ specifications

\* Spec: the whole program on a keyboard of four keys and two cursor places
MaxFrames == 2
MaxEvents == 2
MaxClock == 1

Keys == { "ESCAPE", "W", "LEFT_SHIFT", "F" }
Cursors == { << 0, 0 >>, << 90000, 60000 >> }

Init == AppInit
Next ==
    \/ Frame(MaxFrames, MaxClock, SceneFragments)
    \/ \E key \in Keys, action \in KeyActions : KeyEvent(key, action, MaxEvents)
    \/ \E c \in Cursors : CursorEvent(c[1], c[2], MaxEvents)
Spec == Init /\ [][Next]_vars

\* SpecWalk: walking and running in the four directions, with a turn of
\* 45.5 degrees
WalkFrames == 2
WalkEvents == 3
WalkClock == 1

WalkKeys == { "W", "S", "A", "D", "LEFT_SHIFT" }
WalkActions == { "PRESS", "RELEASE" }
WalkCursors == { << 0, 0 >>, << 45500, 0 >> }

NextWalk ==
    \/ Frame(WalkFrames, WalkClock, { FloorFragment })
    \/ \E key \in WalkKeys, action \in WalkActions : KeyEvent(key, action, WalkEvents)
    \/ \E c \in WalkCursors : CursorEvent(c[1], c[2], WalkEvents)
SpecWalk == Init /\ [][NextWalk]_vars

\* SpecLook: looking around; the first cursor event only records its place,
\* the later ones turn the camera, past both pitch limits
LookFrames == 2
LookEvents == 3

LookCursors == { << 0, 0 >>, << 30000, -60000 >>, << 90000, -120000 >>,
                 << -45000, 120000 >>, << 77500, 60250 >> }

LookClock == 1

NextLook ==
    \/ Frame(LookFrames, LookClock, { FloorFragment })
    \/ \E c \in LookCursors : CursorEvent(c[1], c[2], LookEvents)
SpecLook == Init /\ [][NextLook]_vars

\* SpecDay: no input; the clock runs through the day into the night
DayFrames == 3
DayClock == 3

NextDay == Frame(DayFrames, DayClock, SceneFragments)
SpecDay == Init /\ [][NextDay]_vars

\* SpecEscape: the Escape key and a movement key.  main() runs on: each of
\* its statements returns, glfwPollEvents included, so its next step is
\* eventually taken.  Computes are the statements that call into the camera
\* and the shader; they are enabled exactly at their places (Computing) and
\* change pc, so ComputesRun is WF_vars(Computes) with ENABLED
\* <<Computes>>_vars written out.
EscapeFrames == 2
EscapeEvents == 2
EscapeClock == 1

EscapeKeys == { "ESCAPE", "W" }

NextEscape ==
    \/ Frame(EscapeFrames, EscapeClock, { FloorFragment })
    \/ \E key \in EscapeKeys, action \in KeyActions : KeyEvent(key, action, EscapeEvents)
Computing == pc \in { "pi_w", "pi_s", "pi_a", "pi_d", "render", "draw" }
Computes ==
    \/ ProcessInputW
    \/ ProcessInputS
    \/ ProcessInputA
    \/ ProcessInputD
    \/ Render
    \/ Draw({ FloorFragment })
ComputesRun == []<>(~Computing) \/ []<><<Computes>>_vars
SpecEscape ==
    /\ Init
    /\ [][NextEscape]_vars
    /\ WF_vars(LoopTest(EscapeFrames))
    /\ WF_vars(FrameTime)
    /\ WF_vars(ProcessInputEscape)
    /\ ComputesRun
    /\ WF_vars(PollReturn)

\* SpecShader: the fragment shader as a function of its uniforms and of the
\* fragment.  The spotlight stands at the origin and looks down -z; the
\* fragments at (0,0,-5), (3,0,-4) and (4,0,-3) are seen from it under
\* theta = 1, 0.8 and 0.6, which are also the cut-offs drawn.
ShaderDirections == { ZeroVec, vec3(0, -ONE, 0), vec3(-866025, -500000, -133975) }
ShaderCutOffs == { << CUT_OFF, OUTER_CUT_OFF >>, << ONE, 800000 >>,
                   << 800000, 600000 >>, << ONE, 600000 >> }
ShaderAmbients == { ZeroVec, vec3(200000, 200000, 200000) }

ShaderUniforms ==
    { [ dirLight |-> [DirLight0 EXCEPT !.direction = d],
        spotLight |-> [SpotLight0 EXCEPT !.direction = vec3(0, 0, -ONE),
                                         !.ambient = a,
                                         !.cutOff = c[1], !.outerCutOff = c[2]],
        spotLightOn |-> on,
        viewPosition |-> vec3(0, ONE, 0),
        shininess |-> SHININESS,
        view |-> << >> ] :
      d \in ShaderDirections, c \in ShaderCutOffs, a \in ShaderAmbients, on \in { 0, 1 } }

ShaderAlphas == { 0, 99999, ALPHA_CUTOUT, ONE }
ShaderPositions == { vec3(0, 0, -5 * ONE), vec3(3 * ONE, 0, -4 * ONE),
                     vec3(4 * ONE, 0, -3 * ONE), vec3(0, -200000, -ONE) }

ShaderFragments ==
    { [ texColor |-> << 400000, 600000, 200000, alpha >>, Normal |-> vec3(0, 2 * ONE, ONE),
        FragPos |-> p ] : alpha \in ShaderAlphas, p \in ShaderPositions }

InitShader ==
    /\ pc = "shader"
    /\ uniforms \in ShaderUniforms
    /\ dirLight = uniforms.dirLight
    /\ clock = 0
    /\ keys = {}
    /\ shouldClose = FALSE
    /\ camera = Camera(vec3(0, 0, 3 * ONE), vec3(0, ONE, 0), YAW, PITCH)
    /\ lastX = SCR_WIDTH \div 2
    /\ lastY = SCR_HEIGHT \div 2
    /\ firstMouse = TRUE
    /\ deltaTime = 0
    /\ lastFrame = 0
    /\ flashlightOn = (uniforms.spotLightOn > 0)
    /\ fragment = Fragment0
    /\ shaded = NotShaded
    /\ frames = 0
    /\ events = 0
    /\ drawn = FALSE
    /\ prevCall = "none"
    /\ lastCall = "Camera"
    /\ fPresses = 0
    /\ cursorAt = << >>

\* the shader runs on one fragment
Shade ==
    /\ pc = "shader"
    /\ \E frag \in ShaderFragments, undef \in Outcomes(uniforms) :
          /\ fragment' = frag
          /\ shaded' = ShaderMain(uniforms, frag, undef)
    /\ drawn' = TRUE
    /\ UNCHANGED << pc, clock, keys, shouldClose, camera, lastX, lastY, firstMouse,
                    deltaTime, lastFrame, flashlightOn, dirLight, uniforms, frames,
                    events, prevCall, lastCall,
                    fPresses, cursorAt >>

NextShader == Shade
SpecShader == InitShader /\ [][NextShader]_vars

\* ------------------------------------------------------------ claims

\* C1: after any sequence of ProcessKeyboard calls, in any direction, with any
\* deltaTime >= 0 and interleaved with ProcessMouseMovement, speedUp and
\* slowDown, Position.x and Position.z both lie in [-74, 74].
C1_PositionBounded ==
    /\ -BOUNDARY <= camera.Position[1] /\ camera.Position[1] <= BOUNDARY
    /\ -BOUNDARY <= camera.Position[3] /\ camera.Position[3] <= BOUNDARY

\* a ProcessKeyboard call has just stopped the running camera at the
\* boundary z = 74, off the axis x = 0
C1_Witness ==
    /\ lastCall = "ProcessKeyboard"
    /\ camera.Position[3] = BOUNDARY
    /\ camera.Position[1] # 0
    /\ camera.MovementSpeed # SPEED

\* C2: Position.y always equals previousBobbing.y: in the initial state of
\* the application's camera, after every ProcessKeyboard call in every
\* direction, and whatever ProcessMouseMovement, speedUp, slowDown and
\* GetViewMatrix do.
C2_HeightIsBobbing == camera.Position[2] = camera.previousBobbing[2]

\* a ProcessKeyboard call has lifted the camera off the ground
C2_Witness ==
    /\ lastCall = "ProcessKeyboard"
    /\ camera.previousBobbing[2] > 0
    /\ camera.Position[2] > 0

\* the walk preset
Walking(c) ==
    /\ c.MovementSpeed = SPEED
    /\ c.bobbingSpeed = BOBBING_SPEED
    /\ c.bobbingSize = BOBBING_SIZE

\* C4: speedUp() followed by slowDown(), from any camera state, leaves
\* MovementSpeed, bobbingSpeed and bobbingSize exactly at their default
\* values SPEED, BOBBING_SPEED and BOBBING_SIZE.
C4_RoundTrip == (prevCall = "speedUp" /\ lastCall = "slowDown") => Walking(camera)

\* slowDown has just followed speedUp
C4_Witness ==
    /\ prevCall = "speedUp"
    /\ lastCall = "slowDown"
    /\ Walking(camera)

\* a step that is a call of speedUp or slowDown (by key_callback)
IsToggleCall == events' = events + 1 /\ lastCall' \in { "speedUp", "slowDown" }

\* C5: speedUp called twice in a row leaves the camera as one call does
\* (MovementSpeed and bobbingSpeed 2.5 times the default, bobbingSize 1.3
\* times the default), and slowDown called twice equals slowDown called once.
C5_Idempotent ==
    [][(IsToggleCall /\ lastCall' = lastCall) =>
          /\ camera' = camera
          /\ lastCall = "speedUp" =>
                /\ camera.MovementSpeed = 12500000
                /\ camera.bobbingSpeed = 12500000
                /\ camera.bobbingSize = 162500]_vars

\* speedUp has been called twice in a row
C5_Witness ==
    /\ prevCall = "speedUp"
    /\ lastCall = "speedUp"
    /\ ~Walking(camera)

\* a fragment has gone through the shader
Shaded == fragment # Fragment0

\* C6: in the spotlight contribution, intensity is 0 when theta equals
\* outerCutOff or is smaller, 1 when theta equals cutOff or is larger, and
\* (theta - outerCutOff) / (cutOff - outerCutOff) in between (cutOff >
\* outerCutOff); the ambient, diffuse and specular terms are all scaled by
\* attenuation * intensity.
C6_SpotCone ==
    (Shaded /\ shaded.spotAdded) =>
        LET t      == shaded.spot
            cutOff == uniforms.spotLight.cutOff
            outer  == uniforms.spotLight.outerCutOff
            scale  == Mul(t.attenuation, t.intensity)
        IN  /\ t.theta <= outer => t.intensity = 0
            /\ t.theta >= cutOff => t.intensity = ONE
            /\ (outer < t.theta /\ t.theta < cutOff) =>
                   t.intensity = Div(t.theta - outer, cutOff - outer)
            /\ t.ambient = VScale(t.base[1], scale)
            /\ t.diffuse = VScale(t.base[2], scale)
            /\ t.specular = VScale(t.base[3], scale)
            /\ ~shaded.nan => shaded.FragColor =
                  << shaded.dir[1] + t.ambient[1] + t.diffuse[1] + t.specular[1],
                     shaded.dir[2] + t.ambient[2] + t.diffuse[2] + t.specular[2],
                     shaded.dir[3] + t.ambient[3] + t.diffuse[3] + t.specular[3], ONE >>

\* a fragment seen exactly under the outer cut-off got intensity 0 from a
\* spotlight with an ambient term
C6_Witness ==
    /\ Shaded
    /\ shaded.spotAdded
    /\ shaded.spot.theta = uniforms.spotLight.outerCutOff
    /\ shaded.spot.intensity = 0
    /\ shaded.spot.base[1] # ZeroVec
    /\ shaded.spot.ambient = ZeroVec

\* C7: a fragment whose sampled alpha is below 0.1 is discarded and writes
\* no colour, whatever the lights and spotLightOn are; a fragment with alpha
\* >= 0.1 always writes a colour with output alpha 1.
C7_AlphaDiscard ==
    Shaded =>
        IF fragment.texColor[4] < ALPHA_CUTOUT
        THEN shaded.discarded /\ ~shaded.written
        ELSE ~shaded.discarded /\ shaded.written /\ shaded.FragColor[4] = ONE

\* a fragment just under the threshold has been discarded with the spotlight on
C7_Witness ==
    /\ Shaded
    /\ fragment.texColor[4] = 99999
    /\ uniforms.spotLightOn = 1
    /\ shaded.discarded

\* a step that is a call of Camera::ProcessMouseMovement (by mouse_callback)
IsMouseCall == events' = events + 1 /\ lastCall' = "ProcessMouseMovement"

\* the yoffset mouse_callback passes in that step
PassedYOffset == IF firstMouse THEN 0 ELSE lastY - lastY'

\* C3: ProcessMouseMovement with constrainPitch = true leaves Pitch at exactly
\* 89 when Pitch + yoffset * MouseSensitivity exceeds 89, at exactly -89 when
\* it is below -89, and at the unclamped sum otherwise; hence, starting from
\* Pitch = 0, Pitch always lies in [-89, 89].
C3_PitchClamp ==
    /\ [](-PITCH_LIMIT <= camera.Pitch /\ camera.Pitch <= PITCH_LIMIT)
    /\ [][IsMouseCall =>
            LET sum == camera.Pitch + PassedYOffset * camera.MouseSensitivity
            IN  camera'.Pitch = (IF sum > PITCH_LIMIT THEN PITCH_LIMIT
                                 ELSE IF sum < -PITCH_LIMIT THEN -PITCH_LIMIT
                                 ELSE sum)]_vars

\* a ProcessMouseMovement call has stopped the pitch at 89 degrees
C3_Witness ==
    /\ lastCall = "ProcessMouseMovement"
    /\ camera.Pitch = PITCH_LIMIT

\* the vectors a and b differ by at most 1e-5 in every component
Near(a, b) == \A i \in 1..3 : Abs(a[i] - b[i]) <= 10

\* C8: after every basis update, for any yaw and any pitch in [-89, 89] with
\* worldUp = (0, 1, 0), Front, Right and Up are unit-length and pairwise
\* orthogonal within 1e-5, Front is the direction of the current yaw and
\* pitch, and Right, Up, -Front is a right-handed frame (Right x Up = -Front).
C8_Orthonormal ==
    LET c == camera
        dir == vec3(Mul(cos(radians(c.Yaw)), cos(radians(c.Pitch))),
                    sin(radians(c.Pitch)),
                    Mul(sin(radians(c.Yaw)), cos(radians(c.Pitch))))
    IN  /\ Abs(length(c.Front) - ONE) <= 10
        /\ Abs(length(c.Right) - ONE) <= 10
        /\ Abs(length(c.Up) - ONE) <= 10
        /\ Abs(dot(c.Front, c.Right)) <= 10
        /\ Abs(dot(c.Front, c.Up)) <= 10
        /\ Abs(dot(c.Right, c.Up)) <= 10
        /\ Near(c.Front, dir)
        /\ Near(cross(c.Right, c.Up), VNeg(c.Front))

\* the basis has been updated at a pitch limit, the camera turned away from
\* its first yaw
C8_Witness ==
    /\ lastCall = "ProcessMouseMovement"
    /\ camera.Pitch = -PITCH_LIMIT
    /\ camera.Yaw # YAW
    /\ camera.Front[2] < 0

\* a step that changes what the keyboard moves: the camera's position
MovesCamera ==
    \/ camera'.Position # camera.Position
    \/ camera'.previousBobbing # camera.previousBobbing

\* a step that changes what the callbacks change: the look direction, the
\* run/walk preset, the flashlight
TurnsOrToggles ==
    \/ camera'.Yaw # camera.Yaw
    \/ camera'.Pitch # camera.Pitch
    \/ camera'.Front # camera.Front
    \/ camera'.MovementSpeed # camera.MovementSpeed
    \/ flashlightOn' # flashlightOn

\* C9 as stated: within every iteration of the frame loop, input polling and
\* all the state updates it causes (keyboard movement, mouse look, run/walk
\* toggle, flashlight toggle) happen before that iteration's draw calls.
C9_AllUpdatesBeforeDraw ==
    [][(MovesCamera \/ TurnsOrToggles \/ keys' # keys \/ shouldClose' # shouldClose)
          => ~drawn]_vars

\* C9 amended: within every iteration, processInput's key queries and the
\* keyboard movement (and close request) they cause happen before the
\* iteration's draw calls; glfwPollEvents delivers the events after the draw
\* calls, so the mouse look, the run/walk toggle, the flashlight toggle and
\* the key state change after them and are drawn by the next iteration.
C9_InputDrawPoll ==
    [][/\ (MovesCamera \/ shouldClose' # shouldClose) =>
            (~drawn /\ pc \in { "pi_esc", "pi_w", "pi_s", "pi_a", "pi_d" })
       /\ (TurnsOrToggles \/ keys' # keys \/ events' # events) =>
            (drawn /\ pc = "poll")
       /\ drawn' # drawn =>
            IF drawn' THEN pc = "draw" /\ pc' = "poll" ELSE pc = "loop"]_vars

\* in one iteration the keyboard has moved the camera before the draw calls
\* and the flashlight has been switched on after them
C9_Witness ==
    /\ pc = "poll"
    /\ drawn
    /\ events > 0
    /\ flashlightOn
    /\ uniforms.spotLightOn = 0
    /\ lastCall # "ProcessKeyboard"
    /\ camera.Position # vec3(0, 0, 3 * ONE)
    /\ uniforms.viewPosition = camera.Position

\* C10: per frame, with s = sin(t/10) and c = cos(t/10): if s > 0 the
\* directional light's diffuse and specular are both set to 0.5 * s and its
\* direction to (-c, -s, -1 + c); if s <= 0 the direction is set to the zero
\* vector and diffuse and specular are left as they were (at night they keep
\* the values of the last daytime frame); the ambient term never changes.
C10_DayNight ==
    /\ [](dirLight.ambient = DirLight0.ambient)
    /\ [][(pc = "render" /\ pc' # "render") =>
            LET s == sin(glfwGetTime \div 10)
                c == cos(glfwGetTime \div 10)
            IN  /\ s > 0 =>
                     /\ dirLight'.diffuse = vec3(s \div 2, s \div 2, s \div 2)
                     /\ dirLight'.specular = vec3(s \div 2, s \div 2, s \div 2)
                     /\ dirLight'.direction = vec3(-c, -s, c - ONE)
                /\ s <= 0 =>
                     /\ dirLight'.direction = ZeroVec
                     /\ dirLight'.diffuse = dirLight.diffuse
                     /\ dirLight'.specular = dirLight.specular
                /\ uniforms'.dirLight = dirLight']_vars
    /\ [][pc # "render" => dirLight' = dirLight]_vars

\* a night frame has been rendered after a daytime frame: no direction, and
\* the intensity of that daytime frame
C10_Witness ==
    /\ pc = "draw"
    /\ sin(glfwGetTime \div 10) < 0
    /\ dirLight.direction = ZeroVec
    /\ dirLight.diffuse # DirLight0.diffuse
    /\ dirLight.diffuse # ZeroVec
    /\ uniforms.dirLight = dirLight

\* a step of processInput that calls camera.ProcessKeyboard(d, deltaTime)
KeyboardCall(d) ==
    /\ pc' # pc
    /\ \/ pc = "pi_w" /\ "W" \in keys /\ d = "FORWARD"
       \/ pc = "pi_s" /\ "S" \in keys /\ d = "BACKWARD"
       \/ pc = "pi_a" /\ "A" \in keys /\ d = "LEFT"
       \/ pc = "pi_d" /\ "D" \in keys /\ d = "RIGHT"

\* C11: in ProcessKeyboard, with deltaBobbing = previousBobbing before the
\* call minus the bobbing computed in the call and velocity = MovementSpeed *
\* deltaTime, the position moves, before the boundaries are applied, by
\* +(Front * velocity + deltaBobbing) for FORWARD, -(Front * velocity +
\* deltaBobbing) for BACKWARD, -(Right * velocity + deltaBobbing) for LEFT and
\* +(Right * velocity + deltaBobbing) for RIGHT; after the call
\* previousBobbing is the bobbing computed in it.
C11_BobbingDelta ==
    [][\A d \in Directions : KeyboardCall(d) =>
          LET velocity     == Mul(camera.MovementSpeed, deltaTime)
              bobbing      == Bobbing(camera, glfwGetTime)
              deltaBobbing == VSub(camera.previousBobbing, bobbing)
              along        == IF d \in { "FORWARD", "BACKWARD" }
                              THEN camera.Front ELSE camera.Right
              change       == VAdd(VScale(along, velocity), deltaBobbing)
              sign         == IF d \in { "FORWARD", "RIGHT" } THEN 1 ELSE -1
          IN  /\ camera'.previousBobbing = bobbing
              /\ camera'.Position[1] =
                     clamp(camera.Position[1] + sign * change[1], -BOUNDARY, BOUNDARY)
              /\ camera'.Position[3] =
                     clamp(camera.Position[3] + sign * change[3], -BOUNDARY, BOUNDARY)]_vars

\* the turned camera has just moved LEFT for a whole tick of the clock and
\* stayed inside the boundaries
C11_Witness ==
    /\ pc = "pi_d"
    /\ "A" \in keys
    /\ lastCall = "ProcessKeyboard"
    /\ camera.Yaw # YAW
    /\ deltaTime = TICK
    /\ camera.previousBobbing # BOBBING_VEC
    /\ Abs(camera.Position[1]) < BOUNDARY
    /\ Abs(camera.Position[3]) < BOUNDARY
    /\ camera.Position[1] # 0

\* C12: in every frame the spotlight position and direction uploaded to the
\* shader are the camera's Position and Front, taken from the same camera
\* state as that frame's view matrix and viewPosition: the camera does not
\* change between GetViewMatrix and the uploads, nor before the draw calls
\* that use them.
C12_SpotlightIsCamera ==
    /\ pc = "draw" =>
          /\ uniforms.spotLight.position = camera.Position
          /\ uniforms.spotLight.direction = camera.Front
          /\ uniforms.viewPosition = camera.Position
          /\ uniforms.view = GetViewMatrix(camera)
    /\ drawn => uniforms.spotLight.position = uniforms.viewPosition

\* the uniforms of a frame have been uploaded for a camera that has walked
\* away from its first place and turned
C12_Witness ==
    /\ pc = "draw"
    /\ frames = 2
    /\ camera.Yaw # YAW
    /\ camera.Position[1] # 0
    /\ camera.Position[3] # 3 * ONE
    /\ uniforms.spotLight.position = camera.Position
    /\ uniforms.spotLight.direction = camera.Front

\* the directional and the spot contribution of the fragment shader for the
\* fragment last drawn, computed from the uniforms of its frame
DrawnDirLight ==
    CalcDirLight(uniforms.dirLight, normalize(fragment.Normal),
                 normalize(VSub(uniforms.viewPosition, fragment.FragPos)),
                 fragment.texColor, uniforms.shininess, "zero").rgb
DrawnSpotLight ==
    CalcSpotLight(uniforms.spotLight, normalize(fragment.Normal), fragment.FragPos,
                  normalize(VSub(uniforms.viewPosition, fragment.FragPos)),
                  fragment.texColor, uniforms.shininess)

\* SpecFlash: the F key pressed, held and released up to three times (a
\* second press needs a release first) while the scene is drawn; W walks the
\* camera away from its first place
FlashFrames == 2
FlashEvents == 5
FlashClock == 1

FlashKeys == { "F", "W" }

NextFlash ==
    \/ Frame(FlashFrames, FlashClock, SceneFragments)
    \/ \E key \in FlashKeys, action \in KeyActions : KeyEvent(key, action, FlashEvents)
SpecFlash == Init /\ [][NextFlash]_vars

\* C13: the flashlight flag starts off and is flipped exactly once by each
\* press of the F key and by nothing else, so it is on exactly after an odd
\* number of F presses; the flag uploaded with a frame is the flag at that
\* moment, and the frame's fragment output is the directional contribution
\* plus the spot contribution when the uploaded flag is on, the directional
\* contribution alone when it is off.
C13_FlashlightParity ==
    /\ [](flashlightOn = (fPresses % 2 = 1))
    /\ [][(flashlightOn' # flashlightOn) = (fPresses' = fPresses + 1)]_vars
    /\ [](pc = "draw" => uniforms.spotLightOn = (IF fPresses % 2 = 1 THEN 1 ELSE 0))
    /\ []((drawn /\ shaded.written) =>
            /\ shaded.spotAdded = (uniforms.spotLightOn = 1)
            /\ ~shaded.nan =>
                  << shaded.FragColor[1], shaded.FragColor[2], shaded.FragColor[3] >> =
                     (IF uniforms.spotLightOn = 1
                      THEN VAdd(DrawnDirLight, DrawnSpotLight)
                      ELSE DrawnDirLight))

\* F has been pressed, released and pressed again: the flashlight is off
\* again, and a floor fragment inside its cone (the spot contribution would
\* not be zero) has been drawn with the directional contribution alone
C13_Witness ==
    /\ drawn
    /\ fPresses = 2
    /\ "F" \in keys
    /\ ~flashlightOn
    /\ uniforms.spotLightOn = 0
    /\ fragment = FloorFragment
    /\ shaded.written
    /\ ~shaded.nan
    /\ ~shaded.spotAdded
    /\ DrawnSpotLight # ZeroVec
    /\ << shaded.FragColor[1], shaded.FragColor[2], shaded.FragColor[3] >> = DrawnDirLight

\* the run preset
Running(c) ==
    /\ c.MovementSpeed = (SPEED \div 10) * 25
    /\ c.bobbingSpeed = (BOBBING_SPEED \div 10) * 25
    /\ c.bobbingSize = (BOBBING_SIZE \div 10) * 13

\* C14: (MovementSpeed, bobbingSpeed, bobbingSize) is always exactly the walk
\* preset or exactly the run preset (2.5, 2.5 and 1.3 times the walk values),
\* never a mixture; after every key event handled by key_callback, whatever
\* the key, the camera is in the run preset if and only if left shift is held.
C14_WalkOrRun ==
    /\ [](Walking(camera) \/ Running(camera))
    /\ [][IsToggleCall => (Running(camera') <=> "LEFT_SHIFT" \in keys')]_vars

\* a key other than left shift has been pressed while left shift is held:
\* the camera is still running
C14_Witness ==
    /\ events = 2
    /\ keys = { "LEFT_SHIFT", "D" }
    /\ lastCall = "speedUp"
    /\ Running(camera)
    /\ ~Walking(camera)

\* C15: once processInput sees the Escape key pressed the should-close flag
\* is set and stays set; the iteration finishes its frame, the loop test that
\* follows leaves the loop without starting another iteration and main()
\* returns 0 (pc = "done"); the loop is never left while the flag is unset.
C15_EscapeTerminates ==
    /\ [][(pc = "pi_esc" /\ pc' # pc /\ "ESCAPE" \in keys) => shouldClose']_vars
    /\ [][(shouldClose' # shouldClose) =>
            (shouldClose' /\ pc = "pi_esc" /\ "ESCAPE" \in keys)]_vars
    /\ [][(shouldClose /\ pc = "loop") => (pc' = "done" /\ frames' = frames)]_vars
    /\ [][(pc # "done" /\ pc' = "done") => (shouldClose /\ pc = "loop" /\ drawn)]_vars
    /\ [][pc = "done" => pc' = "done"]_vars
    /\ (shouldClose ~> pc = "done")

\* Escape was pressed during the first iteration and released during the
\* second, which saw it pressed: the program has ended after two frames
C15_Witness ==
    /\ pc = "done"
    /\ shouldClose
    /\ frames = 2
    /\ drawn
    /\ "ESCAPE" \notin keys

\* C16: the first cursor event after start-up produces zero offsets: it
\* leaves Yaw and Pitch as they are, wherever the cursor is, and only records
\* the place.  Every later cursor event changes Yaw by MouseSensitivity *
\* (xpos - previous xpos) and Pitch, before clamping, by MouseSensitivity *
\* (previous ypos - ypos), previous being the place of the cursor event just
\* before.  firstMouse never becomes true again.
C16_FirstMouse ==
    /\ [](firstMouse = (cursorAt = << >>))
    /\ [][~firstMouse => ~firstMouse']_vars
    /\ [][IsMouseCall =>
            /\ lastX' = cursorAt'[1]
            /\ lastY' = cursorAt'[2]
            /\ IF cursorAt = << >>
               THEN camera'.Yaw = camera.Yaw /\ camera'.Pitch = camera.Pitch
               ELSE /\ camera'.Yaw = camera.Yaw
                         + camera.MouseSensitivity * (cursorAt'[1] - cursorAt[1])
                    /\ camera'.Pitch =
                         clamp(camera.Pitch
                                 + camera.MouseSensitivity * (cursorAt[2] - cursorAt'[2]),
                               -PITCH_LIMIT, PITCH_LIMIT)]_vars

\* two cursor events have been delivered, the first away from the middle of
\* the window: the second has turned the camera by the way between them
C16_Witness ==
    /\ events = 2
    /\ prevCall = "ProcessMouseMovement"
    /\ lastCall = "ProcessMouseMovement"
    /\ cursorAt = << 30000, -60000 >>
    /\ camera.Yaw = YAW + 30 * ONE
    /\ camera.Pitch = 60 * ONE
    /\ ~firstMouse

====
